---- MODULE Spec2Model ----
(***************************************************************************)
(* Model of kscrpr's local archive store: the canonical by-id directories, *)
(* the sled record store, the tantivy search index, the by-tag/by-artist   *)
(* symlink views, and the fetch / reindex commands that drive them.        *)
(***************************************************************************)
EXTENDS Integers, Sequences, FiniteSets, Bags, TLC

\* ---------------------------------------------------------------- bounds
MaxId == 2          \* number of catalog entries
MaxOps == 2         \* number of commands (process runs) in a behaviour
PageSize == 2       \* catalog entries listed on one tag page
MaxFaults == 1      \* injected failures (I/O, network) in a behaviour
MaxTasks == 2       \* concurrent Searcher::add_archive calls
MaxItems == 3       \* items of the list the picker shows
MaxKeys == 3        \* key and mouse events the picker handles

\* ------------------------------------------------------- remote catalog
\* Catalog ids are chosen so that byte order and numeric order can differ.
IdOf(i) == IF i % 2 = 0 THEN 256 * (i \div 2) ELSE (i + 1) \div 2

Ids == {IdOf(i) : i \in 1..MaxId}

Variants == {1, 2}

\* archives.rs Tag: path (slug) and display name; a name is a sequence of
\* characters so that tokenisation can be computed.
TagA == [path |-> "a", name |-> <<"a">>]
TagB == [path |-> "b", name |-> <<"b">>]
TagC == [path |-> "c", name |-> <<"c">>]
TagUpper == [path |-> "big", name |-> <<"B">>]
TagUpper2 == [path |-> "big-2", name |-> <<"B">>]

TagsOf(i, v) ==
    IF v = 1
    THEN CASE i % 3 = 1 -> <<TagA, TagB>>
           [] i % 3 = 2 -> <<TagA>>
           [] OTHER -> <<TagA, TagB, TagC>>
    ELSE <<TagUpper, TagUpper2>>

\* archives.rs Archive (the fields the store, the index and the views use).
ArchiveOf(i, v) ==
    [id |-> IdOf(i), name |-> <<"n">>, artist |-> <<"x">>,
     parody |-> <<"o">>, tags |-> TagsOf(i, v)]

\* What the catalog serves for entry i: the first entry has changed upstream
\* between its two variants, the others have one variant.
Served(i, v) == IF i = 1 THEN ArchiveOf(i, v) ELSE ArchiveOf(i, 1)

Archives == {Served(i, v) : i \in 1..MaxId, v \in Variants}

NumPages == (MaxId + PageSize - 1) \div PageSize

\* The catalog indexes listed on tag page p, in listing order.
PageEntries(p) ==
    [k \in 1..(IF p * PageSize <= MaxId THEN PageSize
               ELSE MaxId - (p - 1) * PageSize) |-> (p - 1) * PageSize + k]

\* ------------------------------------------------------------- helpers
Range(s) == {s[k] : k \in 1..Len(s)}

\* ------------------------------------------------- sled keys and values
\* u32::to_le_bytes
ToLeBytes(id) ==
    <<id % 256, (id \div 256) % 256, (id \div 65536) % 256, (id \div 16777216) % 256>>

\* u32::to_be_bytes
ToBeBytes(id) ==
    <<(id \div 16777216) % 256, (id \div 65536) % 256, (id \div 256) % 256, id % 256>>

\* u32::from_be_bytes
FromBeBytes(b) == b[1] * 16777216 + b[2] * 65536 + b[3] * 256 + b[4]

\* sled orders keys bytewise (lexicographic on the key bytes).
RECURSIVE BytesLess(_, _)
BytesLess(a, b) ==
    IF Len(a) = 0 THEN Len(b) > 0
    ELSE IF Len(b) = 0 THEN FALSE
    ELSE IF a[1] # b[1] THEN a[1] < b[1]
    ELSE BytesLess(Tail(a), Tail(b))

RECURSIVE SortedKeys(_)
\* sled_db.iter(): the keys in ascending byte order
SortedKeys(K) ==
    IF K = {} THEN <<>>
    ELSE LET m == CHOOSE k \in K : \A o \in K \ {k} : BytesLess(k, o)
         IN <<m>> \o SortedKeys(K \ {m})

\* serde_cbor::to_vec / from_slice: a stored value is an encoded archive;
\* decoding anything that is not a well-formed encoding fails.
SerdeToVec(a) == [enc |-> "cbor", val |-> a]

SerdeOk(v) == v.enc = "cbor"

SerdeFromSlice(v) == v.val

\* ------------------------------------------------------- search index
\* tantivy TEXT fields use the default tokenizer: split on characters that
\* are not alphanumeric, then lower-case every token.
IsAlphanumeric(c) == c \notin {" ", "-", "_"}

LowerCaser(c) ==
    CASE c = "A" -> "a"
      [] c = "B" -> "b"
      [] c = "C" -> "c"
      [] OTHER -> c

RECURSIVE TokenizeFrom(_, _, _)
TokenizeFrom(text, k, cur) ==
    IF k > Len(text)
    THEN IF cur = <<>> THEN {} ELSE {cur}
    ELSE IF IsAlphanumeric(text[k])
         THEN TokenizeFrom(text, k + 1, Append(cur, LowerCaser(text[k])))
         ELSE (IF cur = <<>> THEN {} ELSE {cur}) \cup TokenizeFrom(text, k + 1, <<>>)

\* The set of terms the default tokenizer produces for a text.
Tokenize(text) == TokenizeFrom(text, 1, <<>>)

\* Searcher::add_archive, the doc! it builds: the stored id and the terms
\* of each text field; every tag display name is added to the tag field.
\* names remembers the display names the tag terms were made from (the
\* index does not store them; it is used to state properties only).
Doc(a) ==
    [id |-> a.id,
     names |-> {a.tags[k].name : k \in 1..Len(a.tags)},
     name |-> Tokenize(a.name),
     artist |-> Tokenize(a.artist),
     parody |-> Tokenize(a.parody),
     tag |-> UNION {Tokenize(a.tags[k].name) : k \in 1..Len(a.tags)}]

\* add_archive that commits without having added its document.
SearcherAddArchiveNoDoc(index, pending, a, fp) ==
    IF fp \in {"index_add", "index_commit"} THEN [committed |-> index, staged |-> pending]
    ELSE [committed |-> index (+) pending, staged |-> EmptyBag]

\* add_archive that returns after add_document, without the commit.
SearcherAddArchiveStaged(index, pending, a, fp) ==
    IF fp = "index_add" THEN [committed |-> index, staged |-> pending]
    ELSE [committed |-> index, staged |-> pending (+) SetToBag({Doc(a)})]

\* Searcher::add_archive: add_document stages the document, then
\* prepare_commit().commit_async() publishes everything staged.
\* fp names the step that fails ("none": no failure).
SearcherAddArchive(index, pending, a, fp) ==
    IF fp = "index_add" THEN [committed |-> index, staged |-> pending]
    ELSE IF fp = "index_commit"
         THEN [committed |-> index, staged |-> pending (+) SetToBag({Doc(a)})]
         ELSE [committed |-> index (+) pending (+) SetToBag({Doc(a)}),
               staged |-> EmptyBag]

\* Searcher::commit: publishes the staged documents.
SearcherCommit(index, pending) == [committed |-> index (+) pending, staged |-> EmptyBag]

\* Number of committed documents carrying an id.
RECURSIVE SumCopies(_, _)
SumCopies(index, D) ==
    IF D = {} THEN 0
    ELSE LET d == CHOOSE x \in D : TRUE
         IN CopiesIn(d, index) + SumCopies(index, D \ {d})

DocCount(index, id) == SumCopies(index, {d \in BagToSet(index) : d.id = id})

IndexedIds(index) == {d.id : d \in BagToSet(index)}

\* Searcher::with_all_tags: a BooleanQuery of Occur::Must TermQuery, one
\* per given tag, the term being the tag text as given (not tokenised);
\* the result has one id per matching document.
TermMatches(d, tag) == tag \in d.tag

WithAllTagsDocs(index, tags) ==
    {d \in BagToSet(index) : \A t \in tags : TermMatches(d, t)}

WithAllTags(index, tags) == {d.id : d \in WithAllTagsDocs(index, tags)}

\* How many times with_all_tags returns an id.
WithAllTagsHits(index, tags, id) ==
    SumCopies(index, {d \in WithAllTagsDocs(index, tags) : d.id = id})

\* --------------------------------------------------------- view layer
\* FileSystem::data_dir_of_id: the canonical directory is named by the id.
DataDirOfId(id) == id

\* has_archive that never finds the directory.
HasArchiveNever(ds, id) == FALSE

\* FileSystem::has_archive: the canonical directory exists.
HasArchive(ds, id) == DataDirOfId(id) \in ds

\* data_dir_for_archive_by_tag / data_dir_for_archive_by_artist:
\* <view root>/<key>/<name>-<id>
DataDirForArchiveByTag(tag, a) ==
    [view |-> "by_tags", key |-> tag, name |-> a.name, id |-> a.id]

DataDirForArchiveByArtist(a) ==
    [view |-> "by_artist", key |-> a.artist, name |-> a.name, id |-> a.id]

\* The alias paths build_data_symlinks_for creates, in creation order.
AliasPaths(a) ==
    [k \in 1..(Len(a.tags) + 1) |->
        IF k <= Len(a.tags) THEN DataDirForArchiveByTag(a.tags[k].name, a)
        ELSE DataDirForArchiveByArtist(a)]

\* A path test that never finds the path.
PathExistsNever(al, p) == FALSE

\* The path is taken (symlink_dir fails with EEXIST on it).
PathExists(al, p) == \E e \in al : e.path = p

\* symlink::symlink_dir(target, path): fails when the path exists.
SymlinkDir(al, target, p) == al \cup {[path |-> p, target |-> target]}

RECURSIVE LinkFrom(_, _, _, _, _)
LinkFrom(al, paths, target, k, lf) ==
    IF k > Len(paths) THEN [aliases |-> al, ok |-> TRUE]
    ELSE IF k = lf \/ PathExists(al, paths[k]) THEN [aliases |-> al, ok |-> FALSE]
    ELSE LinkFrom(SymlinkDir(al, target, paths[k]), paths, target, k + 1, lf)

\* A link that removes the aliases it created when a later one fails.
BuildDataSymlinksForAtomic(al, a, lf) ==
    LET l == LinkFrom(al, AliasPaths(a), DataDirOfId(a.id), 1, lf)
    IN IF l.ok THEN l ELSE [aliases |-> al, ok |-> FALSE]

\* FileSystem::build_data_symlinks_for: one symlink per tag, then one for
\* the artist; the first failing symlink returns the error.  lf is the
\* position of an injected I/O failure (0: none).
BuildDataSymlinksFor(al, a, lf) == LinkFrom(al, AliasPaths(a), DataDirOfId(a.id), 1, lf)

\* The aliases a record's link creates when none of them exists.
AliasesOf(a) ==
    {[path |-> AliasPaths(a)[k], target |-> DataDirOfId(a.id)] : k \in 1..(Len(a.tags) + 1)}

\* A reset that removes the whole data/ view tree instead of its own root.
ResetViewDirAll(al, view, ok) == IF ok THEN {} ELSE al

\* FileSystem::reset_tags_dir / reset_artists_dir: remove_dir_all of the
\* view root, its error ignored (ok = FALSE: nothing was removed).
ResetViewDir(al, view, ok) == IF ok THEN {e \in al : e.path.view # view} ELSE al

\* reset_tantivy_dir that leaves the index files in place.
ResetTantivyDirKeeps(index, ok) == index

\* FileSystem::reset_tantivy_dir followed by Searcher::new: a removed index
\* directory is recreated empty, one that could not be removed is reopened.
ResetTantivyDir(index, ok) == IF ok THEN EmptyBag ELSE index

\* ------------------------------------------------ FileSystem::add_archive
\* add_archive with the index update placed before the record store insert.
StepPosIndexFirst(step) ==
    CASE step = "download" -> 1
      [] step = "container" -> 2
      [] step = "mkdir" -> 3
      [] step = "extract" -> 4
      [] step = "link" -> 5
      [] step = "render" -> 6
      [] step = "index_add" -> 7
      [] step = "index_commit" -> 8
      [] step = "sled" -> 9
      [] OTHER -> 10

\* The steps of add_archive in program order; a failure point fp names the
\* step at which an error occurs ("none": every step succeeds).  "download"
\* is the transfer of the payload and "container" the ZipArchive::new that
\* ends Archive::download.
StepPos(step) ==
    CASE step = "download" -> 1
      [] step = "container" -> 2
      [] step = "mkdir" -> 3
      [] step = "extract" -> 4
      [] step = "link" -> 5
      [] step = "render" -> 6
      [] step = "sled" -> 7
      [] step = "index_add" -> 8
      [] step = "index_commit" -> 9
      [] OTHER -> 10

FailPoints ==
    {"none", "download", "container", "mkdir", "extract", "render", "sled", "index_add",
     "index_commit"}

\* add_archive that returns when building the symlinks fails.
ReturnsAtLinkFatal(fp) == IF fp = "render" THEN "none" ELSE fp

\* The step at which add_archive returns early: a failure of the symlink or
\* the render step is logged and the call goes on.
ReturnsAt(fp) == IF fp \in {"link", "render"} THEN "none" ELSE fp

\* The step ran to completion before add_archive returned.
StepDone(step, fp) == StepPos(step) < StepPos(ReturnsAt(fp))

\* The step was started: no earlier step made add_archive return.
StepReached(step, fp) == StepPos(step) <= StepPos(ReturnsAt(fp))

\* create_dir_all that creates nothing.
CreateDirAllSkipped(ds, id) == ds

\* std::fs::create_dir_all(&target_data_dir)
CreateDirAll(ds, id) == ds \cup {DataDirOfId(id)}

\* An insert that leaves the new record as the only one.
SledInsertAlone(db, a) == [k \in {ToBeBytes(a.id)} |-> SerdeToVec(a)]

\* sled_db.insert(archive.id.to_be_bytes(), serde_cbor::to_vec(&archive))
SledInsert(db, a) ==
    [k \in DOMAIN db \cup {ToBeBytes(a.id)} |->
        IF k = ToBeBytes(a.id) THEN SerdeToVec(a) ELSE db[k]]

\* The result add_archive returns for a failure point: extraction failure is
\* reported as Ok(false), symlink and render failures are only logged.
AddResult(fp) ==
    IF fp \in {"download", "container", "mkdir", "sled", "index_add", "index_commit"}
    THEN "err"
    ELSE IF fp = "extract" THEN "false"
    ELSE "true"

\* FileSystem::add_archive(archive, force) on the store st, with failure
\* point fp and symlink failure position lf.
AddArchive(st, a, frc, fp, lf) ==
    IF ~frc /\ HasArchive(st.dirs, a.id)
    THEN [st EXCEPT !.ret = "false", !.downloaded = FALSE]
    ELSE LET linked == IF StepDone("extract", fp)
                       THEN BuildDataSymlinksFor(st.aliases, a, lf)
                       ELSE [aliases |-> st.aliases, ok |-> TRUE]
             \* the first step whose failure ends the call
             end == IF ~linked.ok /\ ReturnsAt("link") = "link" THEN "link" ELSE fp
             idx == IF StepReached("index_add", end)
                    THEN SearcherAddArchive(st.committed, st.staged, a, end)
                    ELSE [committed |-> st.committed, staged |-> st.staged]
         IN [dirs |-> IF StepDone("mkdir", fp) THEN CreateDirAll(st.dirs, a.id) ELSE st.dirs,
             complete |-> IF StepDone("extract", fp) THEN st.complete \cup {a.id}
                          ELSE IF fp = "extract" THEN st.complete \ {a.id}
                          ELSE st.complete,
             aliases |-> linked.aliases,
             linkOk |-> linked.ok,
             sled |-> IF StepDone("sled", end) THEN SledInsert(st.sled, a) ELSE st.sled,
             committed |-> idx.committed,
             staged |-> idx.staged,
             ret |-> AddResult(end),
             downloaded |-> TRUE]

\* sled::open on a directory that is not there, creating an empty database.
SledOpenFresh(db) == <<>>

\* FileSystem::open, sled::open(meta/sled/): an existing database is opened
\* with the records it holds.
SledOpen(db) == db

\* FileSystem::fetch_doc: the record stored under the id, if it is there
\* and decodes.
FetchDocOk(db, id) == ToBeBytes(id) \in DOMAIN db /\ SerdeOk(db[ToBeBytes(id)])

FetchDoc(db, id) == SerdeFromSlice(db[ToBeBytes(id)])

\* fetch_doc that reports bytes that do not decode as a missing record.
FetchDocResultLenient(db, id) ==
    IF ToBeBytes(id) \notin DOMAIN db \/ ~SerdeOk(db[ToBeBytes(id)])
    THEN [kind |-> "not_found"]
    ELSE [kind |-> "ok", val |-> SerdeFromSlice(db[ToBeBytes(id)])]

\* FileSystem::fetch_doc, what it returns: the eyre "does not exist" error
\* for an absent key, the serde_cbor error for bytes that do not decode,
\* the record otherwise.
FetchDocResult(db, id) ==
    IF ToBeBytes(id) \notin DOMAIN db THEN [kind |-> "not_found"]
    ELSE IF ~SerdeOk(db[ToBeBytes(id)]) THEN [kind |-> "decode"]
    ELSE [kind |-> "ok", val |-> SerdeFromSlice(db[ToBeBytes(id)])]

StoredIds(db) == {FromBeBytes(k) : k \in DOMAIN db}

\* fetch_inner that collects into a Result: the first failing id fails the call.
FetchInnerCollect(db, doc_ids) ==
    IF \A k \in 1..Len(doc_ids) : FetchDocOk(db, doc_ids[k])
    THEN [ok |-> TRUE, val |-> [k \in 1..Len(doc_ids) |-> FetchDoc(db, doc_ids[k])]]
    ELSE [ok |-> FALSE, val |-> <<>>]

\* FileSystem::fetch_inner: filter_map over the ids, an id whose fetch_doc
\* fails is logged and left out; the result is always Ok.
FetchInner(db, doc_ids) ==
    LET F[k \in 0..Len(doc_ids)] ==
            IF k = 0 THEN <<>>
            ELSE IF FetchDocOk(db, doc_ids[k])
                 THEN Append(F[k - 1], FetchDoc(db, doc_ids[k]))
                 ELSE F[k - 1]
    IN [ok |-> TRUE, val |-> F[Len(doc_ids)]]

\* The hit lists a collector can hand back for the matched documents D:
\* one entry per matching document copy, in an order the index chooses.
HitLists(index, D) ==
    LET n == SumCopies(index, D)
    IN {h \in [1..n -> D] :
          \A d \in D : Cardinality({k \in 1..n : h[k] = d}) = CopiesIn(d, index)}

\* doc.get_first(id_field) of every hit, in hit order.
MatchedIds(h) == [k \in 1..Len(h) |-> h[k].id]

\* Searcher::search, the documents the parsed query matches: the query text
\* is tokenised as the field is, and a document matches when one of the
\* default fields holds one of the terms.
SearchFields == {"name", "artist", "parody", "tag"}

SearcherSearchDocs(index, query, fields) ==
    {d \in BagToSet(index) : \E f \in fields : Tokenize(query) \cap d[f] # {}}

\* The relevance score of a matching document: every term of the query that
\* a default field of the document holds adds to it.
Score(d, query, fields) ==
    Cardinality({ft \in fields \X Tokenize(query) : ft[2] \in d[ft[1]]})

\* The order TopDocs gives the matches: by score, highest first, equal
\* scores in the order of the document addresses (an order the index
\* content fixes).
TopOrder(index, query, fields) ==
    CHOOSE h \in HitLists(index, SearcherSearchDocs(index, query, fields)) :
        \A i, j \in 1..Len(h) : i < j => Score(h[i], query, fields) >= Score(h[j], query, fields)

\* Searcher::search(query, default_indexes, max): max is <<>> for None and
\* <<k>> for Some(k).  Without a limit the DocSetCollector hands back all
\* matches in the order h; TopDocs::with_limit(k) panics for k = 0 and keeps
\* the first k of the score order otherwise.
SearcherSearch(index, query, fields, max, h) ==
    IF max = <<>> THEN [ok |-> TRUE, hits |-> h]
    ELSE IF max[1] = 0 THEN [ok |-> FALSE, hits |-> <<>>]
    ELSE LET t == TopOrder(index, query, fields)
         IN [ok |-> TRUE, hits |-> IF Len(t) <= max[1] THEN t ELSE SubSeq(t, 1, max[1])]

\* ---------------------------------------------------------------- state
VARIABLES
    dirs,           \* ids whose canonical directory data/by_ids/<id> exists
    complete,       \* ids whose last extraction into that directory finished
    sled,           \* the record store: key bytes -> encoded archive
    committed,      \* the index: bag of committed documents
    staged,         \* documents added to the writer and not yet committed
    aliases,        \* symlinks of the by_tags and by_artist views
    RUNNING,        \* utils::RUNNING
    pc,             \* "idle", "fetching", "adding", "reindexing", "done"
    cmd,            \* the command that runs: "tag", "id", "call", "reindex"
    force,          \* the force argument of the running add_archive
    page,           \* the tag page being fetched or processed
    queue,          \* items (or keys) left to process, the head in flight
    new_archives,   \* ids pushed to new_archives by the tag batch
    outcome,        \* how the command ended: "ok", "err", "cancelled"
    ops,            \* commands finished so far
    last,           \* the last add_archive call, what it returned and what was printed
    ingested,       \* ids for which some add_archive returned Ok(true)
    startedAfterQuit, \* ids whose add_archive began after RUNNING was cleared
    pre,            \* the index and the views as they were when reindex began
    faults,         \* failures injected so far
    startFaults,    \* failures injected before the running command began
    api,            \* the last direct call of a read path or of link, and its result
    writers,        \* concurrent Searcher::add_archive calls: the lock and each call's step
    list            \* the picker: its StatefulList, the last calls made on it, its result

store == <<dirs, complete, sled, committed, staged, aliases>>

vars == <<dirs, complete, sled, committed, staged, aliases, RUNNING, pc, cmd, force,
          page, queue, new_archives, outcome, ops, last, ingested, startedAfterQuit, pre,
          faults, startFaults, api, writers, list>>

St == [dirs |-> dirs, complete |-> complete, sled |-> sled, committed |-> committed,
       staged |-> staged, aliases |-> aliases, linkOk |-> TRUE, ret |-> "none",
       downloaded |-> FALSE]

NoCall == [id |-> 0, force |-> FALSE, ret |-> "none", downloaded |-> FALSE,
           existed |-> FALSE, wasIngested |-> FALSE, fp |-> "none", linkOk |-> TRUE,
           lf |-> 0, wasStored |-> FALSE, wasLinked |-> FALSE, hadAlias |-> FALSE,
           archive |-> <<>>, msg |-> "none"]

NoApi == [op |-> "none"]

Tasks == 1..MaxTasks

\* No call of Searcher::add_archive is running and the writer lock is free.
NoWriters == [lock |-> 0, pos |-> [t \in Tasks |-> "idle"], arg |-> [t \in Tasks |-> <<>>],
              inflight |-> EmptyBag]

\* No picker is open.
NoList == [pos |-> "none"]

NoPre == [committed |-> EmptyBag, aliases |-> {}, wiped |-> FALSE, okIndex |-> FALSE,
          okArtists |-> FALSE, okTags |-> FALSE, resetFaults |-> 0]

Init ==
    /\ dirs = {}
    /\ complete = {}
    /\ sled = <<>>
    /\ committed = EmptyBag
    /\ staged = EmptyBag
    /\ aliases = {}
    /\ RUNNING = TRUE
    /\ pc = "idle"
    /\ cmd = "none"
    /\ force = FALSE
    /\ page = 0
    /\ queue = <<>>
    /\ new_archives = <<>>
    /\ outcome = "none"
    /\ ops = 0
    /\ last = NoCall
    /\ ingested = {}
    /\ startedAfterQuit = {}
    /\ pre = NoPre
    /\ faults = 0
    /\ startFaults = 0
    /\ api = NoApi
    /\ writers = NoWriters
    /\ list = NoList

\* The store after an add_archive call r.
SetStore(r) ==
    /\ dirs' = r.dirs
    /\ complete' = r.complete
    /\ sled' = r.sled
    /\ committed' = r.committed
    /\ staged' = r.staged
    /\ aliases' = r.aliases

\* FetchCommand::go, Id: the line written to stderr for the value add_archive
\* returned.
FetchIdMessage(added) ==
    IF added THEN "Archive was already downloaded" ELSE "Added the following new archive:"

\* History of the add_archive call on a that returned r, and what the
\* fetch-by-id command printed for it.
Record(a, frc, r, fp, lf) ==
    /\ last' = [id |-> a.id, force |-> frc, ret |-> r.ret,
                downloaded |-> r.downloaded, existed |-> HasArchive(dirs, a.id),
                wasIngested |-> a.id \in ingested,
                fp |-> IF r.downloaded THEN fp ELSE "none", linkOk |-> r.linkOk,
                lf |-> lf, wasStored |-> a.id \in StoredIds(sled),
                wasLinked |-> AliasesOf(a) \subseteq aliases,
                hadAlias |-> \E e \in aliases : e.target = DataDirOfId(a.id),
                archive |-> a,
                msg |-> IF cmd = "id" /\ r.ret # "err"
                        THEN FetchIdMessage(r.ret = "true") ELSE "none"]
    /\ ingested' = IF r.ret = "true" THEN ingested \cup {a.id} ELSE ingested

\* ------------------------------------------------------------- commands
\* n more failures are injected, within the budget.
Inject(n) == faults + n <= MaxFaults /\ faults' = faults + n

Count(b) == IF b THEN 1 ELSE 0

Finish(res) ==
    /\ pc' = "done"
    /\ outcome' = res

\* A direct call of FileSystem::add_archive(archive, force).
StartCall(a, frc) ==
    /\ pc = "idle" /\ ops < MaxOps
    /\ pc' = "adding" /\ cmd' = "call" /\ force' = frc
    /\ queue' = <<a>> /\ page' = 0 /\ new_archives' = <<>>
    /\ startFaults' = faults
    /\ UNCHANGED <<store, RUNNING, outcome, ops, last, ingested, startedAfterQuit, pre,
                   faults, api, writers, list>>

\* FetchCommand::go, Id: by_id(id) fetches the metadata (netOk), then
\* add_archive runs without force.
StartFetchId(a, netOk) ==
    /\ pc = "idle" /\ ops < MaxOps
    /\ cmd' = "id" /\ force' = FALSE /\ page' = 0 /\ new_archives' = <<>>
    /\ IF netOk
       THEN pc' = "adding" /\ queue' = <<a>> /\ UNCHANGED outcome
       ELSE Finish("err") /\ queue' = <<>>
    /\ Inject(Count(~netOk))
    /\ startFaults' = faults
    /\ UNCHANGED <<store, RUNNING, ops, last, ingested, startedAfterQuit, pre, api, writers, list>>

\* FetchCommand::go, Tag: the handler is installed and page 1 is requested.
StartFetchTag ==
    /\ pc = "idle" /\ ops < MaxOps
    /\ pc' = "fetching" /\ cmd' = "tag" /\ force' = FALSE
    /\ page' = 1 /\ queue' = <<>> /\ new_archives' = <<>>
    /\ startFaults' = faults
    /\ UNCHANGED <<store, RUNNING, outcome, ops, last, ingested, startedAfterQuit, pre,
                   faults, api, writers, list>>

\* scrape::fetch_tag_page: the listed ids that has_archive does not know and
\* whose metadata fetch succeeded (got), as archives of the variant the
\* catalog serves (v).
FetchTagPage(ds, p, v, got) ==
    LET es == PageEntries(p)
        keep == {k \in 1..Len(es) : ~HasArchive(ds, IdOf(es[k])) /\ es[k] \in got}
        F[k \in 0..Len(es)] ==
            IF k = 0 THEN <<>>
            ELSE IF k \in keep THEN Append(F[k - 1], Served(es[k], v)) ELSE F[k - 1]
    IN F[Len(es)]

\* The ctrlc handler: RUNNING.store(false).
Cancel ==
    /\ pc \in {"fetching", "adding", "reindexing"}
    /\ cmd \in {"tag", "id", "reindex"}
    /\ RUNNING
    /\ RUNNING' = FALSE
    /\ UNCHANGED <<store, pc, cmd, force, page, queue, new_archives, outcome, ops, last,
                   ingested, startedAfterQuit, pre, faults, startFaults, api, writers, list>>

\* utils::user_has_quit
UserHasQuit(r) == ~r

\* The tag loop got the result of fetch_tag_page for the current page.
PageFetched(netOk, v, got) ==
    /\ pc = "fetching" /\ cmd = "tag"
    /\ got \subseteq Range(PageEntries(page))
    /\ netOk /\ page <= NumPages => v \in {w \in Variants : 1 \in Range(PageEntries(page)) \/ w = 1}
    /\ ~netOk \/ page > NumPages => got = Range(PageEntries(page)) /\ v = 1
    /\ Inject(Count(~netOk) + Count(got # Range(PageEntries(page))))
    /\ UNCHANGED <<dirs, complete, sled, aliases, RUNNING, cmd, force, new_archives, ops,
                   last, ingested, pre, startFaults, api, writers, list>>
    /\ IF ~netOk
       THEN Finish("err") /\ UNCHANGED <<committed, staged, page, queue, startedAfterQuit>>
       ELSE IF page > NumPages
       THEN Finish("ok") /\ UNCHANGED <<committed, staged, page, queue, startedAfterQuit>>
       ELSE LET a == FetchTagPage(dirs, page, v, got) IN
            IF a = <<>>
            THEN LET c == SearcherCommit(committed, staged) IN
                 /\ committed' = c.committed /\ staged' = c.staged
                 /\ page' = page + 1 /\ queue' = <<>>
                 /\ UNCHANGED <<pc, outcome, startedAfterQuit>>
            ELSE /\ pc' = "adding" /\ queue' = a
                 /\ startedAfterQuit' = IF UserHasQuit(RUNNING)
                                        THEN startedAfterQuit \cup {a[1].id}
                                        ELSE startedAfterQuit
                 /\ UNCHANGED <<committed, staged, page, outcome>>

\* The add_archive call in flight returns; the caller goes on.
ItemDone(fp, lf) ==
    /\ pc = "adding"
    /\ LET a == Head(queue)
           r == AddArchive(St, a, force, fp, lf)
           c == SearcherCommit(r.committed, r.staged)
       IN /\ Inject(Count(fp # "none") + Count(lf # 0))
          /\ lf \in 0..(Len(a.tags) + 1)
          /\ lf # 0 => StepDone("extract", fp)
          /\ ~r.downloaded => fp = "none" /\ lf = 0
          /\ Record(a, force, r, fp, lf)
          /\ UNCHANGED <<RUNNING, cmd, force, ops, pre, startedAfterQuit, startFaults, api, writers, list>>
          /\ IF r.ret = "err"
             THEN SetStore(r) /\ Finish("err") /\ UNCHANGED <<page, queue, new_archives>>
             ELSE CASE cmd = "call" ->
                       /\ SetStore(r) /\ Finish("ok")
                       /\ UNCHANGED <<page, queue, new_archives>>
                    [] cmd = "id" ->
                       /\ SetStore([r EXCEPT !.committed = c.committed, !.staged = c.staged])
                       /\ Finish("ok")
                       /\ UNCHANGED <<page, queue, new_archives>>
                    [] OTHER ->
                       /\ new_archives' = IF r.ret = "true" THEN Append(new_archives, a.id)
                                          ELSE new_archives
                       /\ IF UserHasQuit(RUNNING)
                          THEN /\ SetStore([r EXCEPT !.committed = c.committed,
                                                     !.staged = c.staged])
                               /\ Finish("cancelled")
                               /\ UNCHANGED <<page, queue>>
                          ELSE IF Len(queue) > 1
                          THEN /\ SetStore(r)
                               /\ queue' = Tail(queue)
                               /\ UNCHANGED <<pc, outcome, page>>
                          ELSE /\ SetStore([r EXCEPT !.committed = c.committed,
                                                     !.staged = c.staged])
                               /\ pc' = "fetching" /\ queue' = <<>> /\ page' = page + 1
                               /\ UNCHANGED outcome

\* do_reindex up to the loop: the handler is installed, the index and the
\* views are reset (each reset may fail silently), the store is opened and
\* the iteration over the record store begins.
StartReindex(okIndex, okArtists, okTags) ==
    /\ pc = "idle" /\ ops < MaxOps
    /\ cmd' = "reindex" /\ force' = FALSE /\ page' = 0 /\ new_archives' = <<>>
    /\ pre' = [committed |-> committed, aliases |-> aliases,
               wiped |-> okIndex /\ okArtists /\ okTags, okIndex |-> okIndex,
               okArtists |-> okArtists, okTags |-> okTags,
               resetFaults |-> Count(~okIndex) + Count(~okArtists) + Count(~okTags)]
    /\ aliases' = ResetViewDir(ResetViewDir(aliases, "by_artist", okArtists), "by_tags", okTags)
    /\ staged' = EmptyBag
    /\ committed' = ResetTantivyDir(committed, okIndex)
    /\ sled' = SledOpen(sled)
    /\ queue' = SortedKeys(DOMAIN sled')
    /\ IF DOMAIN sled' = {} THEN Finish("ok") ELSE pc' = "reindexing" /\ UNCHANGED outcome
    /\ Inject(Count(~okIndex) + Count(~okArtists) + Count(~okTags))
    /\ startFaults' = faults
    /\ UNCHANGED <<dirs, complete, RUNNING, ops, last, ingested, startedAfterQuit, api, writers, list>>

ReindexFailPoints == {"none", "read", "index_add", "index_commit", "render"}

\* One iteration of the do_reindex loop, and the commit after the loop when
\* it was the last one or the user has quit.
ReindexStep(fp, lf) ==
    /\ pc = "reindexing"
    /\ lf # 0 => fp \in {"none", "render"}
    /\ Inject(Count(fp # "none") + Count(lf # 0))
    /\ UNCHANGED <<dirs, complete, sled, RUNNING, cmd, force, page, new_archives, ops, last,
                   ingested, startedAfterQuit, pre, startFaults, api, writers, list>>
    /\ IF fp = "read" \/ ~SerdeOk(sled[Head(queue)])
       THEN Finish("err") /\ UNCHANGED <<committed, staged, aliases, queue>>
       ELSE LET a == SerdeFromSlice(sled[Head(queue)])
                i == SearcherAddArchive(committed, staged, a, fp)
                l == BuildDataSymlinksFor(aliases, a, lf)
                c == SearcherCommit(i.committed, i.staged)
            IN /\ lf \in 0..(Len(a.tags) + 1)
               /\ IF fp \in {"index_add", "index_commit"}
                  THEN /\ committed' = i.committed /\ staged' = i.staged
                       /\ Finish("err") /\ UNCHANGED <<aliases, queue>>
                  ELSE IF ~l.ok \/ fp = "render"
                  THEN /\ committed' = i.committed /\ staged' = i.staged
                       /\ aliases' = l.aliases
                       /\ Finish("err") /\ UNCHANGED queue
                  ELSE /\ aliases' = l.aliases
                       /\ IF UserHasQuit(RUNNING) \/ Len(queue) = 1
                          THEN /\ committed' = c.committed /\ staged' = c.staged
                               /\ queue' = Tail(queue)
                               /\ Finish(IF Len(queue) = 1 THEN "ok" ELSE "cancelled")
                          ELSE /\ committed' = i.committed /\ staged' = i.staged
                               /\ queue' = Tail(queue)
                               /\ UNCHANGED <<pc, outcome>>

\* The process ends: the index writer and its staged documents are dropped,
\* and the next process starts with RUNNING = true.
Exit ==
    /\ pc = "done"
    /\ pc' = "idle" /\ cmd' = "none" /\ force' = FALSE /\ page' = 0 /\ queue' = <<>>
    /\ new_archives' = <<>> /\ outcome' = "none" /\ ops' = ops + 1
    /\ staged' = EmptyBag /\ RUNNING' = TRUE
    /\ last' = NoCall
    /\ startedAfterQuit' = {} /\ pre' = NoPre /\ startFaults' = 0
    /\ UNCHANGED <<dirs, complete, sled, committed, aliases, ingested, faults, api, writers, list>>

Next ==
    \/ \E a \in Archives, frc \in BOOLEAN : StartCall(a, frc)
    \/ \E a \in Archives, netOk \in BOOLEAN : StartFetchId(a, netOk)
    \/ StartFetchTag
    \/ \E netOk \in BOOLEAN, v \in Variants, got \in SUBSET (1..MaxId) : PageFetched(netOk, v, got)
    \/ \E fp \in FailPoints, lf \in 0..4 : ItemDone(fp, lf)
    \/ \E okIndex \in BOOLEAN, okArtists \in BOOLEAN, okTags \in BOOLEAN :
          StartReindex(okIndex, okArtists, okTags)
    \/ \E fp \in ReindexFailPoints, lf \in 0..4 : ReindexStep(fp, lf)
    \/ Cancel
    \/ Exit

Spec == Init /\ [][Next]_vars

\* The tag sets given to with_all_tags (the command line takes at least one).
TagQueries == (SUBSET {<<"a">>, <<"b">>, <<"c">>, <<"B">>}) \ {{}}

\* ------------------------------------------------------------ read paths
\* The read paths are exercised over every small content of the record
\* store and of the index, records that do not decode and index documents
\* without a record included.
Garbage == [enc |-> "junk", val |-> <<>>]

ReadStores ==
    UNION {[{ToBeBytes(id) : id \in S} ->
               {SerdeToVec(a) : a \in Archives} \cup {Garbage}] : S \in SUBSET Ids}

ReadIndexes ==
    {SetToBag(D1) (+) SetToBag(D2) :
        D1 \in SUBSET {Doc(a) : a \in Archives},
        D2 \in {D \in SUBSET {Doc(a) : a \in Archives} : Cardinality(D) <= 1}}

nonStore == <<RUNNING, pc, cmd, force, page, queue, new_archives, outcome, ops, last,
              ingested, startedAfterQuit, pre, faults, startFaults, writers, list>>

Idle ==
    /\ RUNNING = TRUE /\ pc = "idle" /\ cmd = "none" /\ force = FALSE /\ page = 0
    /\ queue = <<>> /\ new_archives = <<>> /\ outcome = "none" /\ ops = 0
    /\ last = NoCall /\ ingested = {} /\ startedAfterQuit = {} /\ pre = NoPre
    /\ faults = 0 /\ startFaults = 0 /\ api = NoApi /\ writers = NoWriters

InitRead ==
    /\ Idle /\ list = NoList
    /\ sled \in {db \in ReadStores : \A k \in DOMAIN db :
                    SerdeOk(db[k]) => SerdeFromSlice(db[k]).id = FromBeBytes(k)}
    /\ committed \in {b \in ReadIndexes : SumCopies(b, BagToSet(b)) <= MaxId + 1}
    /\ dirs = StoredIds(sled) /\ complete = dirs
    /\ staged = EmptyBag /\ aliases = {}

\* The result of a read path whose index query ended with r: the records
\* fetch_inner keeps, or the failure of the index query.
ReadResult(db, r) ==
    IF r.ok THEN FetchInner(db, MatchedIds(r.hits)) ELSE [ok |-> FALSE, val |-> <<>>]

\* FileSystem::with_all_tags: the ids the index returns (h), then fetch_inner.
ReadWithAllTags(tags, h) ==
    /\ pc = "idle" /\ api = NoApi
    /\ h \in HitLists(committed, WithAllTagsDocs(committed, tags))
    /\ api' = [op |-> "with_all_tags", indexOk |-> TRUE, hits |-> h,
               asked |-> MatchedIds(h), res |-> FetchInner(sled, MatchedIds(h))]
    /\ UNCHANGED <<store, nonStore>>

\* FileSystem::search: the ids the index returns, then fetch_inner; the
\* call is made twice in a row (again is what the second one gets from the
\* index).
ReadSearch(query, fields, max, h) ==
    /\ pc = "idle" /\ api = NoApi
    /\ h \in HitLists(committed, SearcherSearchDocs(committed, query, fields))
    /\ max # <<>> => h = TopOrder(committed, query, fields)
    /\ LET r == SearcherSearch(committed, query, fields, max, h)
           r2 == SearcherSearch(committed, query, fields, max, h)
       IN api' = [op |-> "search", query |-> query, fields |-> fields, max |-> max,
                  indexOk |-> r.ok, hits |-> r.hits, asked |-> MatchedIds(r.hits),
                  again |-> MatchedIds(r2.hits), res |-> ReadResult(sled, r)]
    /\ UNCHANGED <<store, nonStore>>

\* GetCommand::go, Id: FileSystem::fetch_doc(id).
ReadDoc(id) ==
    /\ pc = "idle" /\ api = NoApi
    /\ api' = [op |-> "fetch_doc", id |-> id, before |-> sled,
               res |-> FetchDocResult(sled, id)]
    /\ UNCHANGED <<store, nonStore>>

SearchQueries == {<<"a">>, <<"B">>, <<"a", " ", "b">>}

NextRead ==
    \/ /\ api = NoApi
       /\ \E tags \in TagQueries :
             \E h \in HitLists(committed, WithAllTagsDocs(committed, tags)) :
                ReadWithAllTags(tags, h)
    \/ /\ api = NoApi
       /\ \E query \in SearchQueries, fields \in {{"tag"}, SearchFields},
              max \in {<<>>, <<0>>, <<1>>, <<2>>} :
             \E h \in (IF max = <<>>
                       THEN HitLists(committed, SearcherSearchDocs(committed, query, fields))
                       ELSE {TopOrder(committed, query, fields)}) :
                ReadSearch(query, fields, max, h)
    \/ \E id \in Ids : ReadDoc(id)

SpecRead == InitRead /\ [][NextRead]_vars

\* ------------------------------------------------------------------ link
\* build_data_symlinks_for is exercised over view directories that already
\* hold a few aliases, whatever their targets.
MaxAliases == 2     \* aliases the views hold before the call

AllAliasPaths == UNION {Range(AliasPaths(a)) : a \in Archives}

InitLink ==
    /\ Idle /\ list = NoList
    /\ dirs = Ids /\ complete = Ids
    /\ sled = <<>> /\ committed = EmptyBag /\ staged = EmptyBag
    /\ \E P \in {Q \in SUBSET AllAliasPaths : Cardinality(Q) <= MaxAliases} :
          \E t \in [P -> Ids] : aliases = {[path |-> q, target |-> t[q]] : q \in P}

\* A call of build_data_symlinks_for(a), lf the position of an I/O failure.
Link(a, lf) ==
    /\ pc = "idle" /\ api = NoApi
    /\ LET l == BuildDataSymlinksFor(aliases, a, lf)
       IN /\ aliases' = l.aliases
          /\ api' = [op |-> "link", archive |-> a, lf |-> lf, before |-> aliases,
                     ok |-> l.ok]
    /\ UNCHANGED <<dirs, complete, sled, committed, staged, nonStore>>

NextLink == \E a \in Archives : \E lf \in 0..(Len(a.tags) + 1) : Link(a, lf)

SpecLink == InitLink /\ [][NextLink]_vars

\* ---------------------------------------- concurrent Searcher::add_archive
\* Several tasks call Searcher::add_archive on one Searcher; a task is
\* descheduled only at an await (the lock, commit_async).
nonWriter == <<dirs, complete, sled, aliases, RUNNING, pc, cmd, force, page, queue,
               new_archives, outcome, ops, last, ingested, startedAfterQuit, pre, faults,
               startFaults, api, list>>

InitWriter ==
    /\ Idle /\ list = NoList
    /\ dirs = {} /\ complete = {} /\ sled = <<>> /\ aliases = {}
    /\ committed = EmptyBag /\ staged = EmptyBag

\* A lock that is handed out whoever holds it.
MutexFreeAlways(holder) == TRUE

\* tokio::sync::Mutex::lock().await resolves when no guard is held.
MutexFree(holder) == holder = 0

\* A task calls add_archive(a) and reaches self.writer.lock().await.
WriterCall(t, a) ==
    /\ writers.pos[t] = "idle"
    /\ writers' = [writers EXCEPT !.pos[t] = "waiting", !.arg[t] = a]
    /\ UNCHANGED <<committed, staged, nonWriter>>

\* The lock future of the task resolves: it holds the MutexGuard.
WriterLock(t) ==
    /\ writers.pos[t] = "waiting" /\ MutexFree(writers.lock)
    /\ writers' = [writers EXCEPT !.pos[t] = "locked", !.lock = t]
    /\ UNCHANGED <<committed, staged, nonWriter>>

\* doc!(...), add_text per tag and writer.add_document(doc), then
\* prepare_commit(): the commit in flight holds what is staged, and the task
\* awaits commit_async.
WriterAddDocument(t) ==
    /\ writers.pos[t] = "locked"
    /\ staged' = staged (+) SetToBag({Doc(writers.arg[t])})
    /\ writers' = [writers EXCEPT !.pos[t] = "committing", !.inflight = staged']
    /\ UNCHANGED <<committed, nonWriter>>

\* commit_async has finished: what was in flight is committed, add_archive
\* returns and the guard is dropped.
WriterCommitted(t) ==
    /\ writers.pos[t] = "committing"
    /\ committed' = committed (+) writers.inflight
    /\ staged' = staged (-) writers.inflight
    /\ writers' = [writers EXCEPT !.pos[t] = "done", !.inflight = EmptyBag,
                                  !.lock = IF writers.lock = t THEN 0 ELSE writers.lock]
    /\ UNCHANGED nonWriter

NextWriter ==
    \/ \E t \in Tasks, a \in Archives : WriterCall(t, a)
    \/ \E t \in Tasks : WriterLock(t)
    \/ \E t \in Tasks : WriterAddDocument(t)
    \/ \E t \in Tasks : WriterCommitted(t)

SpecWriter == InitWriter /\ [][NextWriter]_vars

\* ------------------------------------------------------------- picker
\* pick::do_pick over a list of len items (its callers open it only on a
\* non-empty list).  An Option<usize> is <<>> for None and <<i>> for Some(i).
nonList == <<dirs, complete, sled, committed, staged, aliases, RUNNING, pc, cmd, force,
             page, queue, new_archives, outcome, ops, last, ingested, startedAfterQuit,
             pre, faults, startFaults, api, writers>>

\* StatefulList::next without the wrap to 0.
StatefulListNextNoWrap(len, selected) ==
    IF selected = <<>> THEN <<0>> ELSE <<selected[1] + 1>>

\* StatefulList::next
StatefulListNext(len, selected) ==
    IF selected = <<>> THEN <<0>>
    ELSE IF selected[1] >= len - 1 THEN <<0>> ELSE <<selected[1] + 1>>

\* StatefulList::previous
StatefulListPrevious(len, selected) ==
    IF selected = <<>> THEN <<0>>
    ELSE IF selected[1] = 0 THEN <<len - 1>> ELSE <<selected[1] - 1>>

\* One call of next or previous on the list, remembered with the call before.
ListCall(l, op) ==
    [l EXCEPT !.selected = IF op = "next" THEN StatefulListNext(l.len, l.selected)
                           ELSE StatefulListPrevious(l.len, l.selected),
              !.op = op, !.was = l.selected, !.op2 = l.op, !.was2 = l.was]

RECURSIVE ListCalls(_, _, _)
ListCalls(l, op, n) == IF n = 0 THEN l ELSE ListCalls(ListCall(l, op), op, n - 1)

\* StatefulList::with_items: nothing is selected.
WithItems(len) ==
    [pos |-> "created", len |-> len, selected |-> <<>>, op |-> "none", was |-> <<>>,
     op2 |-> "none", was2 |-> <<>>, keys |-> 0, result |-> <<>>]

InitPick ==
    /\ Idle
    /\ dirs = {} /\ complete = {} /\ sled = <<>> /\ aliases = {}
    /\ committed = EmptyBag /\ staged = EmptyBag
    /\ \E len \in 1..MaxItems : list = WithItems(len)

\* do_pick: list.next() before the event loop starts.
PickOpen ==
    /\ list.pos = "created"
    /\ list' = [ListCall(list, "next") EXCEPT !.pos = "picking"]
    /\ UNCHANGED nonList

\* run_app: the number of next or previous calls an event makes.
KeyCalls(key) == IF key \in {"PageDown", "PageUp"} THEN 10 ELSE 1

KeyOp(key) == IF key \in {"Down", "PageDown", "ScrollDown"} THEN "next" ELSE "previous"

\* run_app: a Down, Up, PageDown, PageUp key or a mouse scroll.
PickMove(key) ==
    /\ list.pos = "picking" /\ list.keys < MaxKeys
    /\ list' = [ListCalls(list, KeyOp(key), KeyCalls(key)) EXCEPT !.keys = list.keys + 1]
    /\ UNCHANGED nonList

\* run_app: Enter returns list.selected(), 'q' and Esc return None.
PickReturn(enter) ==
    /\ list.pos = "picking"
    /\ list' = [list EXCEPT !.pos = "done",
                           !.result = IF enter THEN list.selected ELSE <<>>]
    /\ UNCHANGED nonList

NextPick ==
    \/ PickOpen
    \/ \E key \in {"Down", "Up", "PageDown", "PageUp", "ScrollDown", "ScrollUp"} :
          PickMove(key)
    \/ \E enter \in BOOLEAN : PickReturn(enter)

SpecPick == InitPick /\ [][NextPick]_vars

\* ================================================================ claims
\* The step is the return of an add_archive call.
AddReturns == pc = "adding" /\ (pc' # "adding" \/ queue' # queue)

\* C1: a non-forced add_archive for an id whose earlier ingestion committed
\* downloads nothing, returns Ok(false) and leaves the canonical directory,
\* the record store entry and the index documents of that id as they were
\* (one directory, one entry, and one document if there was one).
C1_IdempotentReingestion ==
    [][(AddReturns /\ ~force /\ Head(queue).id \in ingested) =>
         LET id == Head(queue).id IN
           /\ last'.ret = "false" /\ ~last'.downloaded
           /\ dirs' = dirs /\ id \in dirs'
           /\ sled' = sled /\ ToBeBytes(id) \in DOMAIN sled'
           /\ committed' = committed
           /\ (DocCount(committed, id) = 1 => DocCount(committed', id) = 1)]_vars

C1_Witness ==
    /\ pc = "done" /\ ~last.force /\ last.wasIngested /\ last.ret = "false"
    /\ ~last.downloaded
    /\ DocCount(committed, last.id) = 1 /\ last.id \in StoredIds(sled)

\* C2: every id with a committed document in the index has a record in the
\* record store that fetch_doc returns.
C2_NoGhostIds == \A id \in IndexedIds(committed) : FetchDocOk(sled, id)

C2_Witness ==
    /\ pc = "done" /\ outcome = "err" /\ last.fp = "index_commit"
    /\ IndexedIds(committed) # {} /\ last.id \notin IndexedIds(committed)

\* C3: once an add_archive call or a reindex run has finished (success,
\* error or cancellation), every id in the record store has a committed
\* document in the index.
C3_StoreImpliesIndex ==
    pc = "done" => \A id \in StoredIds(sled) : id \in IndexedIds(committed)

\* C4: the index never holds more than one document for an id of the record
\* store, so with_all_tags never returns an id twice.
C4_OneDocPerId ==
    pc \in {"idle", "done"} =>
        \A id \in StoredIds(sled) :
            /\ DocCount(committed, id) <= 1
            /\ \A T \in TagQueries : WithAllTagsHits(committed, T, id) <= 1

\* C5: every alias of the by_tags and by_artist views targets a canonical
\* directory that exists.
C5_AliasSafety == \A e \in aliases : e.target \in dirs

C5_Witness ==
    /\ pc = "done" /\ cmd = "reindex" /\ outcome = "ok" /\ pre.wiped
    /\ StoredIds(sled) # {}
    /\ \E e \in aliases : e.path.view = "by_tags"
    /\ \E e \in aliases : e.path.view = "by_artist"

\* Every query returns the same ids, each as many times, for two index
\* contents: the match-all query and every with_all_tags query agree.
SameQueryResults(i1, i2) ==
    /\ IndexedIds(i1) = IndexedIds(i2)
    /\ \A id \in IndexedIds(i1) :
          /\ DocCount(i1, id) = DocCount(i2, id)
          /\ \A T \in TagQueries : WithAllTagsHits(i1, T, id) = WithAllTagsHits(i2, T, id)

ReindexCompleted == pc = "done" /\ cmd = "reindex" /\ outcome = "ok" /\ pre.wiped

DerivedFromStore(index, al) ==
    /\ BagToSet(index) = {Doc(SerdeFromSlice(sled[k])) : k \in DOMAIN sled}
    /\ \A id \in StoredIds(sled) : DocCount(index, id) = 1
    /\ al = UNION {AliasesOf(SerdeFromSlice(sled[k])) : k \in DOMAIN sled}

C7_TagAndSemantics ==
    \A T \in TagQueries :
        WithAllTags(committed, T) = {d.id : d \in {x \in BagToSet(committed) : T \subseteq x.names}}

\* C8: when a tag batch ends after the cancellation signal was set, every
\* id whose ingestion it committed has a committed document, and when it
\* stopped on the signal no document is left staged.
C8_CancellationFlush ==
    (pc = "done" /\ cmd = "tag" /\ UserHasQuit(RUNNING)) =>
        /\ \A id \in Range(new_archives) : id \in IndexedIds(committed)
        /\ outcome = "cancelled" => staged = EmptyBag

C8_Witness ==
    /\ pc = "done" /\ cmd = "tag" /\ outcome = "cancelled"
    /\ Len(new_archives) > 0
    /\ \A id \in Range(new_archives) : DocCount(committed, id) = 1

\* C9: in a tag batch an item that failed at download, unpack or link is not
\* among the newly added items and the batch does not end in an error.
C9_FailureIsolation ==
    (cmd = "tag" /\ last.downloaded /\ (last.fp \in {"download", "extract"} \/ ~last.linkOk)) =>
        /\ outcome # "err"
        /\ last.id \notin Range(new_archives)

\* C10: the tag batch never starts add_archive for an item after the
\* cancellation signal was set.
C10_NoStartAfterCancel == startedAfterQuit = {}

\* The aliases of the views that target the canonical directory of an id.
AliasesTo(al, id) == {e \in al : e.target = DataDirOfId(id)}

\* The last add_archive call ran all its steps with no injected failure.
LinkRan == last.downloaded /\ last.fp = "none" /\ last.lf = 0

\* C11: when a tag batch in which nothing failed and which was not cancelled
\* has gone through the whole catalog, every catalog item is stored and has
\* exactly one committed document, whatever step an earlier run was
\* interrupted at.
C11_ResumableIngestion ==
    (pc = "done" /\ cmd = "tag" /\ outcome = "ok" /\ faults = startFaults) =>
        \A id \in Ids : FetchDocOk(sled, id) /\ DocCount(committed, id) = 1

\* C12: a non-forced add_archive skips (no download, Ok(false)) exactly when
\* the record store held the id when it was called.
C12_DedupByRecordStore ==
    (last.id # 0 /\ ~last.force) =>
        /\ last.wasStored => ~last.downloaded /\ last.ret = "false"
        /\ ~last.downloaded => last.wasStored

\* C13: an add_archive call whose payload is not a valid container or whose
\* extraction fails returns Ok(false) and leaves the record store, the
\* index documents of the id and the aliases of the id as they were.
C13_CorruptArchiveNonFatal ==
    [][(AddReturns /\ last'.downloaded /\ last'.fp \in {"container", "extract"}) =>
         LET id == Head(queue).id IN
           /\ last'.ret = "false"
           /\ sled' = sled
           /\ DocCount(committed', id) = DocCount(committed, id)
           /\ AliasesTo(aliases', id) = AliasesTo(aliases, id)]_vars

\* C14: an add_archive call whose symlink building fails, and in which no
\* step that ends the call fails, returns Ok(true), stores the record and
\* commits one more index document for the id.
C14_LinkFailureNoRollback ==
    [][(AddReturns /\ last'.downloaded /\ ~last'.linkOk /\ last'.fp \in {"none", "render"}) =>
         LET a == Head(queue) IN
           /\ last'.ret = "true"
           /\ FetchDocOk(sled', a.id) /\ FetchDoc(sled', a.id) = a
           /\ DocCount(committed', a.id) = DocCount(committed, a.id) + 1]_vars

C14_Witness ==
    /\ pc = "done" /\ last.downloaded /\ ~last.linkOk /\ last.fp = "none"
    /\ last.ret = "true" /\ ~last.wasStored
    /\ FetchDocOk(sled, last.id) /\ DocCount(committed, last.id) = 1
    /\ AliasesTo(aliases, last.id) # AliasesOf(last.archive)

\* C15: no step of a reindex run (its start, its iterations, its end by
\* completion, error or cancellation) changes the record store or the
\* canonical directories.
C15_ReindexKeepsStore ==
    [][(cmd = "reindex" \/ cmd' = "reindex") =>
         sled' = sled /\ dirs' = dirs /\ complete' = complete]_vars

C15_Witness ==
    /\ pc = "done" /\ cmd = "reindex" /\ outcome \in {"err", "cancelled"}
    /\ Cardinality(StoredIds(sled)) = MaxId /\ StoredIds(sled) \subseteq dirs
    /\ IndexedIds(committed) # {} /\ IndexedIds(committed) # StoredIds(sled)

\* C16: a read path whose index query returned ids returns Ok, and its records are those of the ids the
\* index returned whose fetch_doc succeeds, in the order the index returned
\* them; ids without a record or with a record that does not decode are
\* left out.
C16_ReadIsolation ==
    (api.op \in {"with_all_tags", "search"} /\ api.indexOk) =>
        LET okPos == {k \in 1..Len(api.asked) : FetchDocOk(sled, api.asked[k])}
        IN /\ api.res.ok
           /\ Len(api.res.val) = Cardinality(okPos)
           /\ \A k \in okPos :
                 api.res.val[Cardinality({j \in okPos : j <= k})] = FetchDoc(sled, api.asked[k])

C16_Witness ==
    /\ api.op \in {"with_all_tags", "search"}
    /\ Len(api.asked) = 3 /\ Len(api.res.val) = 2
    /\ ToBeBytes(api.asked[2]) \in DOMAIN sled /\ ~FetchDocOk(sled, api.asked[2])
    /\ api.res.val[1].id = api.asked[1] /\ api.res.val[2].id = api.asked[3]

\* C17: when add_archive builds the symlinks of a record whose aliases all
\* exist and target its canonical directory, the link succeeds and the
\* aliases of the record are unchanged.
C17_IdempotentRelink ==
    (LinkRan /\ last.wasLinked) =>
        last.linkOk /\ AliasesTo(aliases, last.id) = AliasesOf(last.archive)

\* The aliases that stand in the way of link(a): they are at a path link(a)
\* creates and target another canonical directory.
Conflicts(al, a) ==
    {e \in al : e.path \in Range(AliasPaths(a)) /\ e.target # DataDirOfId(a.id)}

\* C18: when build_data_symlinks_for finds one of its alias paths taken by
\* an alias that targets another canonical directory, it returns an error
\* and that path still holds the alias it held, with its target.
C18_LinkConflictKeepsAlias ==
    (api.op = "link" /\ Conflicts(api.before, api.archive) # {}) =>
        /\ ~api.ok
        /\ \A e \in Conflicts(api.before, api.archive) :
              \A f \in aliases : f.path = e.path <=> f = e

C18_Witness ==
    /\ api.op = "link" /\ api.lf = 0 /\ ~api.ok
    /\ Conflicts(api.before, api.archive) # {}
    /\ aliases # api.before
    /\ \E e \in Conflicts(aliases, api.archive) : e.target \in dirs

\* C19: when add_archive builds the symlinks of a record that has no alias
\* yet, the link succeeds and the aliases of the record are one per tag and
\* one for the artist, all targeting its canonical directory.
C19_CompleteAliasSet ==
    (LinkRan /\ ~last.hadAlias) =>
        /\ last.linkOk
        /\ AliasesTo(aliases, last.id) = AliasesOf(last.archive)
        /\ Cardinality(AliasesTo(aliases, last.id)) = Len(last.archive.tags) + 1

\* C20: the result of an add_archive call tells the three cases apart:
\* Ok(true) exactly for an item that was added, Ok(false) exactly for a
\* skipped duplicate, an error exactly for an item that failed.
C20_OutcomeReporting ==
    last.id # 0 =>
        /\ last.ret = "true" <=> (last.downloaded /\ last.fp \in {"none", "render"})
        /\ last.ret = "false" <=> ~last.downloaded
        /\ last.ret = "err" <=> (last.downloaded /\ last.fp \notin {"none", "render"})

\* C21: no step of a non-forced add_archive call, of a reindex run or of any
\* other command removes an id from the record store or changes the record
\* stored under an id.
C21_RecordsCreatedOnce ==
    [][~force => \A k \in DOMAIN sled : k \in DOMAIN sled' /\ sled'[k] = sled[k]]_vars

C21_Witness ==
    /\ pc = "done" /\ ~last.force /\ last.wasStored /\ last.ret = "false"
    /\ Cardinality(StoredIds(sled)) = MaxId
    /\ FetchDocOk(sled, last.id) /\ FetchDoc(sled, last.id) # last.archive

\* C22: whenever no call is in progress, every alias of the tag and artist
\* views is an alias of a record the record store holds (its id, its name,
\* one of its tag names or its artist).
C22_AliasesDerivable ==
    pc \in {"idle", "done"} =>
        \A e \in aliases :
            \E k \in DOMAIN sled : SerdeOk(sled[k]) /\ e \in AliasesOf(SerdeFromSlice(sled[k]))

\* The step is a return of Searcher::add_archive with Ok, for the document d.
IndexAddReturnsOk(d) ==
    \/ AddReturns /\ last'.ret = "true" /\ d = Doc(Head(queue))
    \/ /\ pc = "reindexing" /\ queue' = Tail(queue)
       /\ d = Doc(SerdeFromSlice(sled[Head(queue)]))

\* C24: when Searcher::add_archive has returned Ok, its document is one more
\* committed document, nothing is left staged, and the match-all query and
\* every with_all_tags query over terms of the document return its id.
C24_SynchronousCommit ==
    [][\A d \in {Doc(a) : a \in Archives} :
         IndexAddReturnsOk(d) =>
           /\ CopiesIn(d, committed') = CopiesIn(d, committed) + 1
           /\ staged' = EmptyBag
           /\ d.id \in IndexedIds(committed')
           /\ \A T \in TagQueries : T \subseteq d.tag => d.id \in WithAllTags(committed', T)]_vars

C24_Witness ==
    /\ pc = "reindexing" /\ Len(queue) < Cardinality(DOMAIN sled) /\ RUNNING
    /\ staged = EmptyBag
    /\ \A k \in DOMAIN sled \ Range(queue) :
          CopiesIn(Doc(SerdeFromSlice(sled[k])), committed) = 1

\* The id of the record stored under a key.
IdAt(db, k) == SerdeFromSlice(db[k]).id

\* C25: reindex iterates over every record store entry exactly once, in
\* ascending order of the record ids; every iteration adds the document of
\* the entry at the head to the index exactly once, and a run that ends Ok
\* has gone through all entries.
C25_ReindexReplayOrder ==
    [][/\ (cmd # "reindex" /\ cmd' = "reindex") =>
            /\ Len(queue') = Cardinality(DOMAIN sled') /\ Range(queue') = DOMAIN sled'
            /\ \A i, j \in 1..Len(queue') :
                  i < j => IdAt(sled', queue'[i]) < IdAt(sled', queue'[j])
       /\ (pc = "reindexing" /\ queue' = Tail(queue)) =>
            committed' (+) staged' =
                committed (+) staged (+) SetToBag({Doc(SerdeFromSlice(sled[Head(queue)]))})
       /\ (pc = "reindexing" /\ pc' = "done" /\ outcome' = "ok") => queue' = <<>>]_vars

C25_Witness ==
    /\ pc = "done" /\ cmd = "reindex" /\ outcome = "ok" /\ pre.wiped /\ RUNNING
    /\ faults = startFaults /\ queue = <<>>
    /\ Cardinality(DOMAIN sled) = MaxId
    /\ \A k \in DOMAIN sled : DocCount(committed, IdAt(sled, k)) = 1
    /\ \E k1, k2 \in DOMAIN sled :
          IdAt(sled, k1) < IdAt(sled, k2) /\ k1[4] > k2[4]

\* C27: a reindex run whose reset of a view left aliases behind, and in
\* which nothing else failed and which was not cancelled, ends Ok with the
\* tag and artist aliases of every stored record in place.
C27_StaleResetRepaired ==
    (/\ pc = "done" /\ cmd = "reindex" /\ RUNNING
     /\ ~(pre.okArtists /\ pre.okTags) /\ pre.aliases # {}
     /\ faults = startFaults + pre.resetFaults) =>
        /\ outcome = "ok"
        /\ \A k \in DOMAIN sled : AliasesOf(SerdeFromSlice(sled[k])) \subseteq aliases

\* The aliases of one view.
ViewOf(al, view) == {e \in al : e.path.view = view}

\* C28: the resets at the start of reindex never fail the command, empty
\* exactly the view or index root each of them names (or leave it as it was
\* when the removal failed), and leave the canonical directories and the
\* record store as they were.
C28_ResetConfined ==
    [][(cmd # "reindex" /\ cmd' = "reindex") =>
         /\ dirs' = dirs /\ complete' = complete /\ sled' = sled
         /\ outcome' # "err"
         /\ ViewOf(aliases', "by_tags") = IF pre'.okTags THEN {} ELSE ViewOf(aliases, "by_tags")
         /\ ViewOf(aliases', "by_artist") =
                IF pre'.okArtists THEN {} ELSE ViewOf(aliases, "by_artist")
         /\ committed' = IF pre'.okIndex THEN EmptyBag ELSE committed]_vars

C28_Witness ==
    /\ pc = "reindexing" /\ Len(queue) = Cardinality(DOMAIN sled)
    /\ pre.okTags /\ ~pre.okArtists /\ pre.okIndex
    /\ ViewOf(pre.aliases, "by_tags") # {} /\ ViewOf(aliases, "by_tags") = {}
    /\ ViewOf(aliases, "by_artist") # {} /\ committed = EmptyBag /\ pre.committed # EmptyBag
    /\ dirs # {}

\* C30: while the canonical directory of an id exists from a failed
\* extraction and the record store has no record of the id, no step of a
\* non-forced call gives the id a record or an index document, and every
\* non-forced add_archive for the id returns Ok(false) without downloading.
C30_FalsePositiveDedup ==
    [][~force =>
         \A id \in Ids :
            (id \in dirs /\ id \notin complete /\ id \notin StoredIds(sled)) =>
               /\ id \notin StoredIds(sled') /\ id \notin IndexedIds(committed')
               /\ (AddReturns /\ Head(queue).id = id) =>
                     last'.ret = "false" /\ ~last'.downloaded]_vars

C30_Witness ==
    /\ pc = "done" /\ ~last.force /\ ~last.downloaded /\ last.ret = "false"
    /\ last.id \in dirs /\ last.id \notin complete /\ ~last.wasStored
    /\ last.id \notin StoredIds(sled) /\ last.id \notin IndexedIds(committed)

\* C26: a search with a limit k returns, both times it is called, the same
\* at most k ids: those of the k highest-scoring matching documents, in
\* descending score order.
C26_LimitedSearch ==
    (api.op = "search" /\ api.max # <<>>) =>
        LET k == api.max[1]
            D == SearcherSearchDocs(committed, api.query, api.fields)
            sc(d) == Score(d, api.query, api.fields)
            h == api.hits
        IN /\ api.indexOk
           /\ Len(h) <= k
           /\ Len(h) = IF SumCopies(committed, D) <= k THEN SumCopies(committed, D) ELSE k
           /\ \A i, j \in 1..Len(h) : i < j => sc(h[i]) >= sc(h[j])
           /\ \A d \in D :
                 Cardinality({i \in 1..Len(h) : h[i] = d}) < CopiesIn(d, committed) =>
                    \A i \in 1..Len(h) : sc(h[i]) >= sc(d)
           /\ api.again = api.asked

\* C29: fetch_doc returns the stored record when the key is present and
\* its bytes decode, a not-found error when the key is absent and a decode
\* error when the bytes do not decode; the record store is as it was.
C29_FetchDocErrors ==
    api.op = "fetch_doc" =>
        LET k == ToBeBytes(api.id) IN
        /\ sled = api.before
        /\ k \notin DOMAIN sled => api.res.kind = "not_found"
        /\ (k \in DOMAIN sled /\ sled[k] = Garbage) => api.res.kind = "decode"
        /\ (k \in DOMAIN sled /\ sled[k] # Garbage) =>
              api.res.kind = "ok" /\ SerdeToVec(api.res.val) = sled[k]

C29_Witness ==
    /\ api.op = "fetch_doc" /\ api.res.kind = "decode"
    /\ ToBeBytes(api.id) \in DOMAIN sled
    /\ \E id \in Ids : FetchDocResult(sled, id).kind = "ok"

\* C23: of the concurrent Searcher::add_archive calls, only the one holding
\* the writer lock is between its add_document and the end of its commit;
\* what is staged and what its commit publishes is exactly its own document,
\* and a call that has returned has its document committed.
C23_IndexWritesSerialized ==
    /\ \A t \in Tasks : writers.pos[t] \in {"locked", "committing"} => writers.lock = t
    /\ \A t \in Tasks :
          writers.pos[t] = "committing" =>
             /\ writers.inflight = SetToBag({Doc(writers.arg[t])})
             /\ staged = writers.inflight
    /\ (\A t \in Tasks : writers.pos[t] # "committing") => staged = EmptyBag
    /\ \A t \in Tasks :
          writers.pos[t] = "done" => BagIn(Doc(writers.arg[t]), committed)

C23_Witness ==
    /\ \E t, u \in Tasks :
          /\ writers.pos[t] = "committing" /\ writers.pos[u] = "waiting"
          /\ writers.arg[t] # writers.arg[u] /\ writers.lock = t
    /\ staged # EmptyBag /\ committed = EmptyBag

\* C31: the fetch-by-id command prints "Added the following new archive"
\* exactly when its add_archive call added the archive (returned Ok(true)),
\* and "Archive was already downloaded" exactly when the call skipped an
\* archive that already existed (returned Ok(false)).
C31_SingleIdFetchMessage ==
    (pc = "done" /\ cmd = "id" /\ last.id # 0) =>
        /\ last.msg = "Added the following new archive:" <=> last.ret = "true"
        /\ last.msg = "Archive was already downloaded" <=>
              (last.ret = "false" /\ last.existed)

\* C32: in every state, each id of the record store has its canonical
\* directory, and the extraction into that directory completed.
C32_StoredHasCanonicalUnit ==
    StoredIds(sled) \subseteq (dirs \cap complete)

\* C33: once the cancellation signal is set, the tag batch requests no
\* further catalog page, also when the page it got lists no new item.
C33_NoPageFetchAfterCancel ==
    [][(cmd = "tag" /\ UserHasQuit(RUNNING)) => ~(pc' = "fetching" /\ page' > page)]_vars

\* The alias build_data_symlinks_for creates at position k of its paths.
AliasAt(a, k) == [path |-> AliasPaths(a)[k], target |-> DataDirOfId(a.id)]

\* C34: when build_data_symlinks_for fails, there is a position k (a tag, or
\* the creator) whose alias could not be created; the aliases of the
\* positions before k were created and are in place, no alias was created for
\* position k or a later one, and the aliases that were there before the call
\* are untouched.
C34_LinkStopsAtFirstFailure ==
    (api.op = "link" /\ ~api.ok) =>
        LET a == api.archive
            paths == AliasPaths(a)
        IN \E k \in 1..Len(paths) :
              /\ \A j \in 1..(k - 1) : AliasAt(a, j) \in aliases /\ AliasAt(a, j) \notin api.before
              /\ aliases = api.before \cup {AliasAt(a, j) : j \in 1..(k - 1)}
              /\ \/ k = api.lf
                 \/ \E e \in aliases : e.path = paths[k]

C34_Witness ==
    /\ api.op = "link" /\ ~api.ok /\ api.lf = 2
    /\ Len(api.archive.tags) >= 2
    /\ AliasAt(api.archive, 1) \in aliases \ api.before
    /\ \A j \in 2..(Len(api.archive.tags) + 1) : AliasAt(api.archive, j) \notin aliases
    /\ api.before # {}

\* C35: on a non-empty list, after any calls of next and previous the
\* selected index is in 0..len-1 (and so is the index do_pick returns); next
\* from the last index gives 0, previous from 0 gives len-1, and next
\* followed by previous gives the index selected before the two calls.
C35_PickerSelectionInRange ==
    (list.pos # "none" /\ list.op # "none") =>
        /\ list.selected # <<>> /\ list.selected[1] \in 0..(list.len - 1)
        /\ (list.op = "next" /\ list.was = <<list.len - 1>>) => list.selected = <<0>>
        /\ (list.op = "previous" /\ list.was = <<0>>) => list.selected = <<list.len - 1>>
        /\ (list.op = "previous" /\ list.op2 = "next" /\ list.was2 # <<>>) =>
              list.selected = list.was2
        /\ list.result # <<>> => list.result[1] \in 0..(list.len - 1)

C35_Witness ==
    /\ list.pos = "done" /\ list.len >= 2
    /\ list.op = "previous" /\ list.op2 = "next"
    /\ list.was2 = <<list.len - 1>> /\ list.was = <<0>>
    /\ list.result = <<list.len - 1>>

====
